---- MODULE Spec2Model ----
(***************************************************************************)
(* Model of the turn-processing pipeline of POST /audio/analyze            *)
(* (app/controllers/audio.py) together with the session context store      *)
(* (app/services/context_repository.py, app/services/session_memory.py),   *)
(* the context resolver (app/pipelines/audio/context.py), the LLM stage    *)
(* (app/pipelines/audio/llm.py, app/services/response_contract.py) and the *)
(* synthesis stage (app/pipelines/audio/synthesis.py); and of one call of  *)
(* the transcription service (app/services/transcribe.py).                 *)
(*                                                                         *)
(* One training session is modelled.  Requests run in handler slots; a     *)
(* step of a slot is the code between two awaits of the coroutine, so two  *)
(* requests of the same session interleave exactly at the await points.    *)
(* Strings the code parses (frequencies, texts) are sequences of           *)
(* one-character strings; scores are integers, confidences are hundredths. *)
(***************************************************************************)
EXTENDS Integers, Sequences, FiniteSets, TLC

\* ---------------------------------------------------------------- bounds
MaxRequests == 2      \* requests started in one behaviour
InitTurns == 39       \* turns already stored when the behaviour starts

\* ------------------------------------------------------ program constants
MAX_TURNS_STORED == 40
_MAX_TURNS == 40
RECENT_TURNS_LIMIT == 8
\* (mutant) a retry budget of one extra attempt
OneJsonRetry == 2 - 1
\* (mutant) a retry budget of three extra attempts
ThreeJsonRetries == 2 + 1
_MAX_JSON_RETRIES == 2
\* difficulty: int = 2 of build_llm_request and of PromptContext
default_difficulty == 2
\* TranscribeService defaults, in seconds
poll_interval == 2
timeout_seconds == 120

\* Python's None, one per type of value so that values stay comparable:
\* names (intents, phase ids, groups), texts, numbers, objects.
None == "None"
NoText == <<"None">>
NoNum == 0 - 9999
Nil == [nil |-> TRUE]

\* Handler slots: at most two requests of the session are in flight at once.
Slots == {1, 2}

\* ------------------------------------------------------------- text helpers
Digits == {"0", "1", "2", "3", "4", "5", "6", "7", "8", "9"}

DigitVal(c) ==
    CASE c = "0" -> 0 [] c = "1" -> 1 [] c = "2" -> 2 [] c = "3" -> 3
      [] c = "4" -> 4 [] c = "5" -> 5 [] c = "6" -> 6 [] c = "7" -> 7
      [] c = "8" -> 8 [] c = "9" -> 9 [] OTHER -> 0

DigitChar(n) ==
    CASE n = 0 -> "0" [] n = 1 -> "1" [] n = 2 -> "2" [] n = 3 -> "3"
      [] n = 4 -> "4" [] n = 5 -> "5" [] n = 6 -> "6" [] n = 7 -> "7"
      [] n = 8 -> "8" [] OTHER -> "9"

IsSpace(c) == c = " "

RECURSIVE LStrip(_)
LStrip(s) == IF s # <<>> /\ IsSpace(Head(s)) THEN LStrip(Tail(s)) ELSE s

RECURSIVE RStrip(_)
RStrip(s) ==
    IF s # <<>> /\ IsSpace(s[Len(s)]) THEN RStrip(SubSeq(s, 1, Len(s) - 1)) ELSE s

\* str.strip()
Strip(s) == RStrip(LStrip(s))

\* str.replace(",", ".")
ReplaceComma(s) == [i \in 1..Len(s) |-> IF s[i] = "," THEN "." ELSE s[i]]

\* str.lower() on the alphabet of the model
Lower(s) == [i \in 1..Len(s) |-> IF s[i] = "X" THEN "x" ELSE s[i]]

\* positions of "." in s
DotPositions(s) == {i \in 1..Len(s) : s[i] = "."}

\* Decimal(cleaned) succeeds: [sign] digits [. digits] with at least one digit,
\* or [sign] inf (exponents and NaN are outside the alphabet of the model)
Unsigned(s) == IF s # <<>> /\ Head(s) \in {"+", "-"} THEN Tail(s) ELSE s

IsDecimal(s) ==
    LET u == Unsigned(s) IN
      /\ u # <<>>
      /\ \A i \in 1..Len(u) : u[i] \in Digits \cup {"."}
      /\ Cardinality(DotPositions(u)) <= 1
      /\ \E i \in 1..Len(u) : u[i] \in Digits

RECURSIVE DigitsVal(_)
DigitsVal(s) ==
    IF s = <<>> THEN 0 ELSE 10 * DigitsVal(SubSeq(s, 1, Len(s) - 1)) + DigitVal(s[Len(s)])

RECURSIVE NatStr(_)
NatStr(n) == IF n < 10 THEN <<DigitChar(n)>> ELSE NatStr(n \div 10) \o <<DigitChar(n % 10)>>

\* as_decimal.quantize(Decimal("0.001"), rounding=ROUND_HALF_UP) in thousandths
QuantizeThousandths(u) ==
    LET dots == DotPositions(u)
        dot == IF dots = {} THEN Len(u) + 1 ELSE CHOOSE i \in dots : TRUE
        ipart == SubSeq(u, 1, dot - 1)
        fpart == SubSeq(u, dot + 1, Len(u))
        f3 == SubSeq(fpart \o <<"0", "0", "0">>, 1, 3)
        roundUp == Len(fpart) >= 4 /\ DigitVal(fpart[4]) >= 5
    IN DigitsVal(ipart) * 1000 + DigitsVal(f3) + (IF roundUp THEN 1 ELSE 0)

\* format(normalized, "f")
FormatThousandths(neg, t) ==
    LET frac == t % 1000
        f == <<DigitChar(frac \div 100), DigitChar((frac \div 10) % 10), DigitChar(frac % 10)>>
    IN (IF neg THEN <<"-">> ELSE <<>>) \o NatStr(t \div 1000) \o <<".">> \o f

\* Decimal(cleaned) is an infinity
IsInfinity(s) == Unsigned(s) = <<"i", "n", "f">>

\* the call raised decimal.InvalidOperation instead of returning a text
InvalidOperation == <<"InvalidOperation">>

\* quantize is called outside the try block: it raises InvalidOperation on an
\* infinity, and the exception leaves normalize_frequency
normalize_frequency(value) ==
    IF value = NoText THEN NoText
    ELSE LET cleaned == Strip(value) IN
      IF cleaned = <<>> THEN NoText
      ELSE LET c == ReplaceComma(cleaned) IN
        IF IsInfinity(c) THEN InvalidOperation
        ELSE IF ~IsDecimal(c) THEN Lower(c)
        ELSE FormatThousandths(c # <<>> /\ Head(c) = "-", QuantizeThousandths(Unsigned(c)))

\* value[-n:]
LastN(s, n) == IF Len(s) <= n THEN s ELSE SubSeq(s, Len(s) - n + 1, Len(s))

\* Python truthiness of an optional text and of an optional name
TruthyText(v) == v # NoText /\ v # <<>>
TruthyStr(v) == v # None /\ v # ""

\* a or b
OrText(a, b) == IF TruthyText(a) THEN a ELSE b
OrStr(a, b) == IF TruthyStr(a) THEN a ELSE b

Min(a, b) == IF a <= b THEN a ELSE b
Max(a, b) == IF a >= b THEN a ELSE b

\* sub occurs in s as a contiguous run
Contains(s, sub) ==
    \E i \in 0..(Len(s) - Len(sub)) : SubSeq(s, i + 1, i + Len(sub)) = sub

\* ------------------------------------------------------------ scenario data
\* A phase of the scenario: id, expected intent, frequency group, transitions.
Phase(id, intent, frequency, onSuccess, success) ==
    [id |-> id, intent |-> intent, frequency |-> frequency,
     onSuccess |-> onSuccess, success |-> success]

F118_300 == <<"1", "1", "8", ".", "3", "0", "0">>
F121_7 == <<"1", "2", "1", ".", "7">>
F118_3 == <<"1", "1", "8", ".", "3">>
F121_70 == <<"1", "2", "1", ".", "7", "0">>
F121_9 == <<"1", "2", "1", ".", "9">>
FInf == <<"i", "n", "f">>

Groups == {"tower", "ground", "radar"}

\* The scenario template of the session: four phases, two configured
\* frequency groups ("radar" has no frequency).
MainScenario ==
    [phases |-> << Phase("p1", "i1", "tower", "p2", None),
                   Phase("p2", "i2", "ground", "ghost", None),
                   Phase("p3", None, None, None, "p1"),
                   Phase("p4", "i4", "radar", None, None) >>,
     default_phase |-> None,
     default_frequency_group |-> None,
     frequencies |-> [g \in Groups |->
                        CASE g = "tower" -> F118_300
                          [] g = "ground" -> F121_7
                          [] OTHER -> NoText]]

\* A scenario without phases (no template could be resolved).
EmptyScenario ==
    [phases |-> <<>>, default_phase |-> None, default_frequency_group |-> None,
     frequencies |-> [g \in Groups |-> NoText]]

\* phase_map = {phase["id"]: phase for phase in phases if phase.get("id")}
PhaseIds(sc) == {sc.phases[i].id : i \in 1..Len(sc.phases)} \ {None, ""}

\* phase_map.get(id)
PhaseMapGet(sc, id) ==
    IF id \in PhaseIds(sc)
    THEN LET k == CHOOSE i \in 1..Len(sc.phases) :
                    /\ sc.phases[i].id = id
                    /\ \A j \in (i + 1)..Len(sc.phases) : sc.phases[j].id # id
         IN sc.phases[k]
    ELSE Nil

\* frequencies.get(active_group)
FrequencyOf(sc, g) == IF g \in DOMAIN sc.frequencies THEN sc.frequencies[g] ELSE NoText

\* ------------------------------------------------------------------ turns
Turn(rid, role, ts, score, confidence, phase_id, allow) ==
    [rid |-> rid, role |-> role, ts |-> ts, score |-> score,
     confidence |-> confidence, phase_id |-> phase_id, allow |-> allow]

\* A history left by earlier requests: student and controller turns alternate.
StoredTurn(i) ==
    IF i % 2 = 1 THEN Turn(-i, "student", NoNum, NoNum, NoNum, None, FALSE)
    ELSE Turn(-i, "controller", 0, 70, 80, "p1", TRUE)

StoredTurns(n) == [i \in 1..n |-> StoredTurn(i)]

\* ------------------------------------------------------- response contract
\* (mutant) the lower bound alone is enforced
ClampLowOnly(v, hi) == IF v < 0 THEN 0 ELSE v

\* max(0.0, min(hi, float(v)))
ClampHigh(v, hi) == Max(0, Min(hi, v))

\* StructuredLlmResponse.normalize_confidence (confidence in hundredths)
normalize_confidence(data) ==
    [data EXCEPT
       !.confidence = IF data.confidence = NoNum THEN NoNum ELSE ClampHigh(data.confidence, 100),
       !.score = IF data.score = NoNum THEN NoNum ELSE ClampHigh(data.score, 100),
       !.feedback = IF data.feedback = NoText THEN <<>> ELSE data.feedback]

\* What the model may send back as JSON data.
LlmData(intent, allow, text, feedback, confidence, score, nextPhase, next_phase) ==
    [intent |-> intent, allowResponse |-> allow, controllerText |-> text,
     feedback |-> feedback, confidence |-> confidence, score |-> score,
     nextPhase |-> nextPhase, next_phase |-> next_phase]

TxtC == <<"c">>
TxtF == <<"f">>

ValidLlmData ==
    { LlmData("i1", TRUE, TxtC, TxtF, 50, 80, None, None),
      LlmData("i9", TRUE, TxtC, NoText, 250, 150, "p3", None),
      LlmData("i1", FALSE, NoText, TxtF, -10, -5, None, None),
      LlmData("i1", FALSE, TxtC, TxtF, NoNum, NoNum, "ghost", "p4"),
      LlmData("", TRUE, <<" ">>, <<" ">>, NoNum, 80, None, None),
      LlmData("i1", FALSE, TxtC, TxtF, 50, 80, "", "p4") }

\* A raw reply of the inference service: a transport failure, nothing,
\* text that is no schema-valid JSON, or JSON data.
RawError == [kind |-> "error"]
RawEmpty == [kind |-> "empty"]
RawMalformed == [kind |-> "malformed"]
RawJson(d) == [kind |-> "json", data |-> d]

\* StructuredLlmResponse.from_json: Nil stands for ValidationError
from_json(raw) ==
    IF raw.kind = "json" THEN normalize_confidence(raw.data) ELSE Nil

\* ------------------------------------------------------------------ state
VARIABLES
    mode,       \* "seq": one request at a time; "conc": requests may overlap
    scenario,   \* the scenario of the session (read-only catalog entry)
    db,         \* TrainingContext.context of the session, Nil when no row exists
    mem,        \* session_memory._turns_store entry of the session
    scores,     \* the PhaseScore rows committed, in commit order
    clock,      \* datetime.utcnow(), in ticks
    nreq,       \* requests started so far
    req,        \* per handler slot: the locals of analyze_audio
    job         \* one call of TranscribeService.transcribe_session_audio

vars == <<mode, scenario, db, mem, scores, clock, nreq, req, job>>

NoCalls ==
    [transcribe |-> 0, classifier |-> 0, llm |-> 0, tts |-> 0, upload |-> 0,
     store_reads |-> 0, store_writes |-> 0, score_writes |-> 0]

NoBody ==
    [session_id |-> None, frequency |-> NoText, audio_url |-> None,
     controller_text |-> NoText, feedback |-> NoText]

\* session_context of a request before fetch_session_context returned
NoCtx ==
    [phase_id |-> None, phase |-> Nil, default_frequency_group |-> None,
     active_frequency_group |-> None,
     squawk |-> NoNum, taxi_route |-> NoNum, meteo |-> NoNum]

NoCls == [intent |-> None, frequency_group |-> None, confidence |-> NoNum]

IdleReq ==
    [pc |-> "idle", rid |-> 0, frequency |-> NoText, transcript |-> NoText,
     status |-> 0, detail |-> None, cause |-> None, response_detail |-> None,
     body |-> NoBody, calls |-> NoCalls,
     ctx |-> NoCtx, fetched |-> NoCtx, history |-> <<>>, cls |-> NoCls,
     saving |-> None, turn |-> Nil, enriched |-> Nil, raw |-> Nil,
     current_phase |-> Nil, phase_intent |-> None, active_group |-> None,
     is_valid_frequency |-> TRUE, expected |-> NoText, received |-> NoText,
     allow_response |-> FALSE, controller_text |-> <<>>, feedback_text |-> NoText,
     response_intent |-> None, response_confidence |-> NoNum,
     response_score |-> NoNum, nextPhase |-> None, next_phase |-> None,
     llm_log |-> <<>>, llm_error |-> None, llm_raw |-> Nil, structured |-> Nil,
     difficulty_mode |-> None]

\* transcribe_session_audio before it is called
IdleJob ==
    [pc |-> "idle", cleanup_objects |-> TRUE, audio |-> None, object |-> "none",
     delete_calls |-> 0, now |-> 0, deadline |-> 0, status |-> None,
     result |-> None, error |-> None]

\* ---------------------------------------------------------------- inputs
\* The inputs and the failures of the collaborators are explored in full when
\* requests run one at a time (mode "seq"); overlapping requests (mode "conc")
\* are explored on well-formed uploads and fault-free collaborators; so are the
\* requests made one at a time over the catalogue of scenarios and stored
\* contexts (mode "catalog").
Faults == mode = "seq"

Uploads == IF Faults THEN {"ok", "bad_type", "empty"} ELSE {"ok"}
Frequencies ==
    IF mode = "conc" THEN {F118_3, F121_9}
    ELSE IF mode = "catalog" THEN {F118_3, F121_70, F121_9, FInf}
    ELSE {F118_3, F121_70, F121_9}
Transcripts == IF Faults THEN {<<"t">>, <<" ">>} ELSE {<<"t">>}
Causes == IF Faults THEN {"cause_a", "cause_b"} ELSE {}

\* Replies of the intent classifier that pass IntentClassificationResponse
ClassifierResults ==
    IF Faults
    THEN { [intent |-> "ix", frequency_group |-> "ground", confidence |-> 150] }
    ELSE {}

StoreOutcomes == IF Faults THEN {"ok", "fail"} ELSE {"ok"}

LlmOutcomes ==
    IF Faults
    THEN {RawMalformed, RawError, RawEmpty} \cup {RawJson(d) : d \in ValidLlmData}
    ELSE IF mode = "conc"
    THEN {RawJson(d) : d \in {x \in ValidLlmData :
                                 x.allowResponse /\ x.intent # "" /\ x.nextPhase = None}}
    ELSE {RawJson(d) : d \in {x \in ValidLlmData : x.intent # "" /\ x.score # NoNum}}

\* ------------------------------------------------------------ bookkeeping
Set(s, r) == req' = [req EXCEPT ![s] = r]

\* The detail of the error response. `stage` names the raise site, `cause` is
\* the text of the upstream exception: transcribe_audio and
\* synthesize_controller_audio answer detail=str(exc), analyze_audio answers a
\* fixed message for the conversation model, the other raise sites are fixed.
http_detail(stage, cause) ==
    IF stage \in {"transcription", "tts", "storage"} THEN cause
    ELSE IF stage = "llm" THEN "No se pudo generar la respuesta del controlador"
    ELSE IF stage = "unhandled" THEN "Internal Server Error"
    ELSE stage

\* The request ends with an HTTP error (HTTPException or unhandled exception).
Fail(r, status, detail, cause) ==
    [r EXCEPT !.pc = "done", !.status = status, !.detail = detail, !.cause = cause,
              !.response_detail = http_detail(detail, cause)]

Called(r, what) == [r EXCEPT !.calls[what] = @ + 1]

InFlight == {s \in Slots : req[s].pc \notin {"idle", "done"}}

Concurrency == IF mode = "conc" THEN Cardinality(Slots) ELSE 1

\* ------------------------------------------------- context_repository.get_context
\* turns returned by get_context for the stored record and the memory store
get_context_turns(dbv, memv) ==
    IF dbv = Nil THEN memv
    ELSE IF dbv.turns # <<>> THEN dbv.turns ELSE memv

\* session_memory.set_turns, called by get_context when the row holds turns
set_turns(turns) == LastN(turns, _MAX_TURNS)

memory_after_get_context(dbv, memv) ==
    IF dbv # Nil /\ dbv.turns # <<>> THEN set_turns(dbv.turns) ELSE memv

\* ------------------------------------------- context.fetch_session_context
StoredField(dbv, f) == IF dbv = Nil THEN None ELSE dbv[f]

FirstPhaseId(sc) == IF sc.phases # <<>> THEN sc.phases[1].id ELSE None

\* default_phase_id as first computed (stored, scenario default, first phase)
default_phase_id(sc, dbv) ==
    OrStr(StoredField(dbv, "phase_id"), OrStr(sc.default_phase, FirstPhaseId(sc)))

\* current_phase, with the fallback to the first phase
resolve_phase(sc, dbv) ==
    LET p == PhaseMapGet(sc, default_phase_id(sc, dbv))
    IN IF p = Nil /\ sc.phases # <<>> THEN sc.phases[1] ELSE p

\* (mutant) the id first computed is kept when it names no phase
resolve_phase_id_as_stored(sc, dbv) == default_phase_id(sc, dbv)

resolve_phase_id(sc, dbv) ==
    IF PhaseMapGet(sc, default_phase_id(sc, dbv)) = Nil /\ sc.phases # <<>>
    THEN sc.phases[1].id
    ELSE default_phase_id(sc, dbv)

resolve_default_group(sc, dbv) ==
    LET g == OrStr(StoredField(dbv, "default_frequency_group"), sc.default_frequency_group)
        p == resolve_phase(sc, dbv)
    IN IF ~TruthyStr(g) /\ p # Nil THEN p.frequency ELSE g

\* a numeric field of the stored context, NoNum when missing
StoredNum(dbv, f) == IF dbv = Nil THEN NoNum ELSE dbv[f]

\* The factories draw at random; a draw is modelled by a value proper to the
\* request that draws, so that two draws of a session differ.
squawk_factory(rid) == 500 + rid
taxi_route_factory(rid) == rid
meteo_factory(rid) == 3000 + rid

\* _remember_assignment: the stored value, else a new one from the factory
_remember_assignment(stored, made) == IF stored # NoNum THEN stored ELSE made

\* _ensure_session_randomization on the stored context (meteo stands for its
\* windDirection, windSpeed and qnh entries)
_ensure_session_randomization(dbv, rid) ==
    [squawk |-> _remember_assignment(StoredNum(dbv, "squawk"), squawk_factory(rid)),
     taxi_route |-> _remember_assignment(StoredNum(dbv, "taxi_route"), taxi_route_factory(rid)),
     meteo |-> _remember_assignment(StoredNum(dbv, "meteo"), meteo_factory(rid))]

fetch_session_context(sc, dbv, rid) ==
    [phase_id |-> resolve_phase_id(sc, dbv),
     phase |-> resolve_phase(sc, dbv),
     default_frequency_group |-> resolve_default_group(sc, dbv),
     active_frequency_group |-> None,
     squawk |-> _ensure_session_randomization(dbv, rid).squawk,
     taxi_route |-> _ensure_session_randomization(dbv, rid).taxi_route,
     meteo |-> _ensure_session_randomization(dbv, rid).meteo]

\* ---------------------------------------------------------------- actions
\* analyze_audio is entered: resolve_content_type and read_audio_bytes
Begin(s) ==
    /\ nreq < MaxRequests
    /\ Cardinality(InFlight) < Concurrency
    /\ req[s].pc \in {"idle", "done"}
    /\ \A t \in Slots : t < s => req[t].pc \notin {"idle", "done"}
    /\ nreq' = nreq + 1
    /\ \E upload \in Uploads, f \in Frequencies :
         LET r == [IdleReq EXCEPT !.rid = nreq + 1, !.frequency = f] IN
           IF upload = "bad_type" THEN Set(s, Fail(r, 400, "unsupported", None))
           ELSE IF upload = "empty" THEN Set(s, Fail(r, 400, "empty", None))
           ELSE Set(s, [r EXCEPT !.pc = "transcribe"])
    /\ UNCHANGED <<job, mode, scenario, db, mem, scores, clock>>

\* transcribe_audio returns or raises
Transcribe(s) ==
    /\ req[s].pc = "transcribe"
    /\ LET r == Called(req[s], "transcribe") IN
         \/ \E c \in Causes : Set(s, Fail(r, 502, "transcription", c))
         \/ \E t \in Transcripts : Set(s, [r EXCEPT !.pc = "fetch", !.transcript = t])
    /\ UNCHANGED <<job, mode, scenario, db, mem, scores, clock, nreq>>

\* fetch_session_context returns; the locals history and session_context are set
FetchContext(s) ==
    /\ req[s].pc = "fetch"
    /\ \E o \in StoreOutcomes :
         IF o = "fail"
         THEN /\ Set(s, Fail(req[s], 500, "unhandled", "store"))
              /\ UNCHANGED mem
         ELSE LET c == fetch_session_context(scenario, db, req[s].rid)
                  h == LastN(get_context_turns(db, mem), MAX_TURNS_STORED)
              IN /\ mem' = memory_after_get_context(db, mem)
                 /\ Set(s, [Called(req[s], "store_reads") EXCEPT
                              !.pc = "classify", !.ctx = c,
                              !.fetched = c, !.history = h])
    /\ UNCHANGED <<job, mode, scenario, db, scores, clock, nreq>>

\* classify_intent returns; student_turn is completed and save_turn entered
Classify(s) ==
    /\ req[s].pc = "classify"
    /\ LET r == [req[s] EXCEPT !.pc = "append_select", !.saving = "student",
                   !.turn = Turn(req[s].rid, "student", NoNum, NoNum, NoNum, None, FALSE)]
       IN IF Strip(req[s].transcript) = <<>>
          THEN Set(s, r)
          ELSE \/ Set(s, Called(r, "classifier"))
               \/ \E c \in ClassifierResults :
                    Set(s, [Called(r, "classifier") EXCEPT
                              !.cls = [c EXCEPT !.confidence =
                                         IF @ = NoNum THEN NoNum ELSE ClampHigh(@, 100)]])
    /\ UNCHANGED <<job, mode, scenario, db, mem, scores, clock, nreq>>

\* ------------------------------------------------ persistence.context_base
\* (mutant) squawk, taxi_route and meteo are not among the copied fields
context_base_static(ctx, history) ==
    [phase_id |-> ctx.phase_id,
     default_frequency_group |-> ctx.default_frequency_group,
     squawk |-> NoNum, taxi_route |-> NoNum, meteo |-> NoNum,
     turns |-> history]

\* the fields context_base copies from session_context (those not None)
context_base(ctx, history) ==
    [phase_id |-> ctx.phase_id,
     default_frequency_group |-> ctx.default_frequency_group,
     squawk |-> ctx.squawk, taxi_route |-> ctx.taxi_route, meteo |-> ctx.meteo,
     turns |-> history]

\* session_memory.append_turn
memory_append_turn(entry, turn) ==
    LET e == Append(entry, turn) IN
      IF Len(e) > _MAX_TURNS THEN SubSeq(e, Len(e) - _MAX_TURNS + 1, Len(e)) ELSE e

\* (mutant) the slice keeps the oldest entries: turns[:MAX_TURNS_STORED]
stored_turns_oldest(base_turns, enriched) ==
    SubSeq(Append(base_turns, enriched), 1,
           IF Len(base_turns) + 1 <= MAX_TURNS_STORED THEN Len(base_turns) + 1
           ELSE MAX_TURNS_STORED)

\* turns[-MAX_TURNS_STORED:] of the turns list append_turn builds
stored_turns(base_turns, enriched) == LastN(Append(base_turns, enriched), MAX_TURNS_STORED)

\* (mutant) the new turn is appended to the turns of the row read
context_data_merged(raw, base, enriched) ==
    [phase_id |-> IF base.phase_id # None THEN base.phase_id
                  ELSE StoredField(raw, "phase_id"),
     default_frequency_group |->
        IF base.default_frequency_group # None THEN base.default_frequency_group
        ELSE StoredField(raw, "default_frequency_group"),
     squawk |-> IF base.squawk # NoNum THEN base.squawk ELSE StoredNum(raw, "squawk"),
     taxi_route |-> IF base.taxi_route # NoNum THEN base.taxi_route
                    ELSE StoredNum(raw, "taxi_route"),
     meteo |-> IF base.meteo # NoNum THEN base.meteo ELSE StoredNum(raw, "meteo"),
     turns |-> stored_turns(IF raw = Nil THEN <<>> ELSE raw.turns, enriched)]

\* context_data of append_turn: the row read (or nothing) overlaid with base_context
context_data(raw, base, enriched) ==
    [phase_id |-> IF base.phase_id # None THEN base.phase_id
                  ELSE StoredField(raw, "phase_id"),
     default_frequency_group |->
        IF base.default_frequency_group # None THEN base.default_frequency_group
        ELSE StoredField(raw, "default_frequency_group"),
     squawk |-> IF base.squawk # NoNum THEN base.squawk ELSE StoredNum(raw, "squawk"),
     taxi_route |-> IF base.taxi_route # NoNum THEN base.taxi_route
                    ELSE StoredNum(raw, "taxi_route"),
     meteo |-> IF base.meteo # NoNum THEN base.meteo ELSE StoredNum(raw, "meteo"),
     turns |-> stored_turns(base.turns, enriched)]

\* (mutant) the local history is restarted from the payload
local_history_reset(history, payload) == <<payload>>

\* save_turn after append_turn returned: history.append(payload); history[-MAX:]
local_history(history, payload) == LastN(Append(history, payload), MAX_TURNS_STORED)

\* append_turn: the timestamp is set, the SELECT returns, the memory store is appended
AppendSelect(s) ==
    /\ req[s].pc = "append_select"
    /\ \E o \in StoreOutcomes :
         IF o = "fail"
         THEN /\ Set(s, Fail(req[s], 500, "unhandled", "store"))
              /\ UNCHANGED <<mem, clock>>
         ELSE LET e == [req[s].turn EXCEPT !.ts = clock] IN
                /\ clock' = clock + 1
                /\ mem' = memory_append_turn(mem, e)
                /\ Set(s, [req[s] EXCEPT !.pc = "append_commit", !.enriched = e, !.raw = db])
    /\ UNCHANGED <<job, mode, scenario, db, scores, nreq>>

\* append_turn: session.commit() returns or raises; save_turn updates the locals
AppendCommit(s) ==
    /\ req[s].pc = "append_commit"
    /\ LET r == req[s]
           base == context_base(r.ctx, r.history)
           conflict == r.raw = Nil /\ db # Nil   \* INSERT against the unique session id
       IN \E o \in StoreOutcomes :
            IF o = "fail" \/ conflict
            THEN /\ Set(s, Fail(r, 500, "unhandled", "store"))
                 /\ UNCHANGED db
            ELSE /\ db' = context_data(r.raw, base, r.enriched)
                 /\ Set(s, [Called(r, "store_writes") EXCEPT
                              !.pc = IF r.saving = "student" THEN "guard" ELSE "score",
                              !.history = local_history(r.history, r.turn),
                              !.raw = Nil])
    /\ UNCHANGED <<job, mode, scenario, mem, scores, clock, nreq>>

\* ----------------------------------------------------- the frequency guard
\* scenario_group of analyze_audio
scenario_group(phase, ctx) ==
    OrStr(phase.frequency,
          OrStr(ctx.active_frequency_group, OrStr(ctx.default_frequency_group, "tower")))

\* active_group of analyze_audio
active_group(sg, classifier_group) ==
    IF TruthyStr(classifier_group) /\ (~TruthyStr(sg) \/ sg = "unknown")
    THEN classifier_group ELSE sg

is_valid_frequency(expected_norm, received_norm) ==
    ~TruthyText(expected_norm) \/ received_norm = expected_norm

FrequencyMessage(display_expected) ==
    <<"La frecuencia esperada para esta solicitud es ">> \o display_expected \o <<".">>

DefaultFeedback == <<"Colacion recibida.">>

\* build_prompt: the instruction the system prompt carries for a difficulty
difficulty_instruction(difficulty) ==
    IF difficulty <= 3 THEN "Modo relajado"
    ELSE IF difficulty <= 7 THEN "Modo normal"
    ELSE "Modo estricto"

\* analyze_audio from the return of save_turn(student_turn) to the LLM call, or,
\* on a frequency mismatch, to the phase bookkeeping
Guard(s) ==
    /\ req[s].pc = "guard"
    /\ LET r == req[s]
           phase == r.ctx.phase
       IN IF phase = Nil THEN Set(s, Fail(r, 409, "no_active_phase", None))
          ELSE LET pi == OrStr(r.cls.intent, phase.intent) IN
            IF ~TruthyStr(pi) THEN Set(s, Fail(r, 409, "no_intent", None))
            ELSE LET sg == scenario_group(phase, r.ctx)
                     ag == active_group(sg, r.cls.frequency_group)
                     expected == FrequencyOf(scenario, ag)
                     en == normalize_frequency(expected)
                     rn == normalize_frequency(Strip(r.frequency))
                     valid == is_valid_frequency(en, rn)
                     display == OrText(en, OrText(expected, <<ag>>))
                     r1 == [r EXCEPT !.current_phase = phase, !.phase_intent = pi,
                              !.active_group = ag, !.ctx.active_frequency_group = ag,
                              !.is_valid_frequency = valid, !.expected = en,
                              !.received = rn, !.response_intent = pi,
                              !.feedback_text = DefaultFeedback]
                 IN IF InvalidOperation \in {en, rn}
                    THEN Set(s, Fail(r, 500, "unhandled", "InvalidOperation"))
                    ELSE IF valid
                    THEN Set(s, [r1 EXCEPT !.pc = "llm",
                                   !.difficulty_mode = difficulty_instruction(default_difficulty)])
                    ELSE Set(s, [r1 EXCEPT !.pc = "transition",
                                   !.controller_text = FrequencyMessage(display),
                                   !.feedback_text = FrequencyMessage(display),
                                   !.response_score = 0])
    /\ UNCHANGED <<job, mode, scenario, db, mem, scores, clock, nreq>>

\* ------------------------------------------------- llm.call_conversation_llm
\* one pass of the retry loop: the inference service replies
LlmAttempt(s) ==
    /\ req[s].pc = "llm"
    /\ \E raw \in LlmOutcomes :
         LET attempt == Len(req[s].llm_log)
             r == [Called(req[s], "llm") EXCEPT !.llm_log = Append(@, raw.kind)]
             structured == from_json(raw)
         IN IF raw.kind = "error"
            THEN \E c \in Causes :
                   Set(s, [Fail(r, 502, "llm", c) EXCEPT !.llm_error = "LlmInvocationError"])
            ELSE IF raw.kind = "empty"
            THEN Set(s, [Fail(r, 502, "llm", None) EXCEPT !.llm_error = "ResponseContractError"])
            ELSE IF structured = Nil
            THEN IF attempt < _MAX_JSON_RETRIES THEN Set(s, r)
                 ELSE Set(s, [Fail(r, 502, "llm", None) EXCEPT
                                !.llm_error = "ResponseContractError"])
            ELSE Set(s, [r EXCEPT
                   !.pc = "transition",
                   !.llm_raw = raw,
                   !.structured = structured,
                   !.allow_response = structured.allowResponse,
                   !.controller_text =
                       IF structured.controllerText = NoText THEN <<>>
                       ELSE Strip(structured.controllerText),
                   !.feedback_text = OrText(Strip(structured.feedback), r.feedback_text),
                   !.response_intent = OrStr(structured.intent, r.phase_intent),
                   !.response_confidence = structured.confidence,
                   !.response_score = structured.score,
                   !.nextPhase = structured.nextPhase,
                   !.next_phase = structured.next_phase])
    /\ UNCHANGED <<job, mode, scenario, db, mem, scores, clock, nreq>>

\* ------------------------------------------------------- phase bookkeeping
\* (mutant) the transitions of the active phase come before the metadata
next_phase_id_transitions_first(nextPhase, next_phase, allow_response, current_phase) ==
    LET explicit == OrStr(nextPhase, next_phase)
        candidate == OrStr(current_phase.onSuccess, current_phase.success)
    IN IF allow_response /\ TruthyStr(candidate) THEN candidate ELSE explicit

\* next_phase_id of analyze_audio: the model's metadata first, then the
\* active phase's transitions when a reply is allowed
next_phase_id(nextPhase, next_phase, allow_response, current_phase) ==
    LET explicit == OrStr(nextPhase, next_phase)
        candidate == OrStr(current_phase.onSuccess, current_phase.success)
    IN IF ~TruthyStr(explicit) /\ allow_response /\ TruthyStr(candidate)
       THEN candidate ELSE explicit

\* (mutant) the destination is not looked up in phase_map
apply_transition_unchecked(sc, ctx, next) ==
    LET np == PhaseMapGet(sc, next) IN
      IF TruthyStr(next)
      THEN [ctx EXCEPT !.phase_id = next, !.phase = np,
              !.default_frequency_group =
                 IF np # Nil /\ TruthyStr(np.frequency) THEN np.frequency ELSE @,
              !.active_frequency_group =
                 IF np # Nil /\ TruthyStr(np.frequency) THEN np.frequency ELSE @]
      ELSE ctx

\* (mutant) the frequency groups of the session are left as they were
apply_transition_same_group(sc, ctx, next) ==
    LET np == PhaseMapGet(sc, next) IN
      IF TruthyStr(next) /\ np # Nil
      THEN [ctx EXCEPT !.phase_id = next, !.phase = np]
      ELSE ctx

\* session_context after the transition block
apply_transition(sc, ctx, next) ==
    LET np == PhaseMapGet(sc, next) IN
      IF TruthyStr(next) /\ np # Nil
      THEN [ctx EXCEPT
              !.phase_id = next,
              !.phase = np,
              !.default_frequency_group = IF TruthyStr(np.frequency) THEN np.frequency ELSE @,
              !.active_frequency_group = IF TruthyStr(np.frequency) THEN np.frequency ELSE @]
      ELSE ctx

\* (mutant) the controller turn is built but save_turn is not awaited
Transition_unsaved(s) ==
    /\ req[s].pc = "transition"
    /\ LET r == req[s]
           next == next_phase_id(r.nextPhase, r.next_phase, r.allow_response, r.current_phase)
           ctx2 == apply_transition(scenario, r.ctx, next)
       IN Set(s, [r EXCEPT
                    !.pc = "score", !.saving = "controller", !.ctx = ctx2,
                    !.turn = Turn(r.rid, "controller", NoNum, r.response_score,
                                  r.response_confidence, ctx2.phase_id, r.allow_response)])
    /\ UNCHANGED <<job, mode, scenario, db, mem, scores, clock, nreq>>

\* analyze_audio from the response values to save_turn(controller_turn)
Transition(s) ==
    /\ req[s].pc = "transition"
    /\ LET r == req[s]
           next == next_phase_id(r.nextPhase, r.next_phase, r.allow_response, r.current_phase)
           ctx2 == apply_transition(scenario, r.ctx, next)
       IN Set(s, [r EXCEPT
                    !.pc = "append_select", !.saving = "controller", !.ctx = ctx2,
                    !.turn = Turn(r.rid, "controller", NoNum, r.response_score,
                                  r.response_confidence, ctx2.phase_id, r.allow_response)])
    /\ UNCHANGED <<job, mode, scenario, db, mem, scores, clock, nreq>>

\* ------------------------------------------------------------- PhaseScore
PhaseScoreRow(rid, phase_id, score) == [rid |-> rid, phase_id |-> phase_id, score |-> score]

\* (mutant) a frequency error is scored under the active phase
phase_score_under_phase(r) ==
    PhaseScoreRow(r.rid, OrStr(r.ctx.phase_id, "unknown"), r.response_score)

\* the PhaseScore analyze_audio adds for the turn
phase_score(r) ==
    IF ~r.is_valid_frequency
    THEN PhaseScoreRow(r.rid, "frequency_usage_error", 0)
    ELSE PhaseScoreRow(r.rid, OrStr(r.ctx.phase_id, "unknown"), r.response_score)

\* analyze_audio from the return of save_turn(controller_turn) to the synthesis
SaveScore(s) ==
    /\ req[s].pc = "score"
    /\ IF req[s].response_score = NoNum
       THEN /\ Set(s, [req[s] EXCEPT !.pc = "synth"])
            /\ UNCHANGED scores
       ELSE \E o \in StoreOutcomes :
              IF o = "fail"
              THEN /\ Set(s, Fail(req[s], 500, "unhandled", "store"))
                   /\ UNCHANGED scores
              ELSE /\ scores' = Append(scores, phase_score(req[s]))
                   /\ Set(s, [Called(req[s], "score_writes") EXCEPT !.pc = "synth"])
    /\ UNCHANGED <<job, mode, scenario, db, mem, clock, nreq>>

\* ---------------------------------------- synthesis.synthesize_controller_audio
\* the session id of the form, as str(session_id)
SessionId == "session"

\* _object_url(bucket, key) of the readback the request uploaded
object_url(rid) == IF rid = 1 THEN "url_1" ELSE IF rid = 2 THEN "url_2" ELSE "url_3"

\* (mutant) the body echoes the normalized frequency
response_body_normalized(r, audio_url) ==
    [session_id |-> SessionId,
     frequency |-> normalize_frequency(Strip(r.frequency)),
     audio_url |-> audio_url,
     controller_text |-> IF r.allow_response /\ r.controller_text # <<>>
                         THEN r.controller_text ELSE NoText,
     feedback |-> r.feedback_text]

\* the body of the 200 response
response_body(r, audio_url) ==
    [session_id |-> SessionId,
     frequency |-> r.frequency,
     audio_url |-> audio_url,
     controller_text |-> IF r.allow_response /\ r.controller_text # <<>>
                         THEN r.controller_text ELSE NoText,
     feedback |-> r.feedback_text]

Respond(r, audio_url) ==
    [r EXCEPT !.pc = "done", !.status = 200, !.body = response_body(r, audio_url)]

\* (mutant) only a blank text suppresses the audio
skip_blank_only(allow_response, controller_text) == Strip(controller_text) = <<>>

\* (mutant) only a withheld reply suppresses the audio
skip_withheld_only(allow_response, controller_text) == ~allow_response

\* no audio is produced: the reply is withheld or blank
skip_synthesis(allow_response, controller_text) ==
    ~allow_response \/ Strip(controller_text) = <<>>

TtsOutcomes == IF Faults THEN {"ok", "RadioTtsError", "fx_error"} ELSE {"ok"}

\* synthesize_controller_audio up to the return of synthesize_readback
Synthesize(s) ==
    /\ req[s].pc = "synth"
    /\ IF skip_synthesis(req[s].allow_response, req[s].controller_text)
       THEN Set(s, Respond(req[s], None))
       ELSE LET r == Called(req[s], "tts") IN
              \E o \in TtsOutcomes :
                 \/ o = "ok" /\ Set(s, [r EXCEPT !.pc = "upload"])
                 \/ o = "RadioTtsError" /\ \E c \in Causes : Set(s, Fail(r, 502, "tts", c))
                 \/ o = "fx_error" /\ Set(s, Fail(r, 500, "unhandled", "radio_fx"))
    /\ UNCHANGED <<job, mode, scenario, db, mem, scores, clock, nreq>>

\* upload_readback_audio returns or raises; analyze_audio returns
Upload(s) ==
    /\ req[s].pc = "upload"
    /\ LET r == Called(req[s], "upload") IN
         \/ Set(s, Respond(r, object_url(r.rid)))
         \/ \E c \in Causes : Set(s, Fail(r, 502, "storage", c))
    /\ UNCHANGED <<job, mode, scenario, db, mem, scores, clock, nreq>>

\* ----------------------------------------------------------- specification
\* a stored context record
Stored(phase_id, group, turns) ==
    [phase_id |-> phase_id, default_frequency_group |-> group,
     squawk |-> NoNum, taxi_route |-> NoNum, meteo |-> NoNum, turns |-> turns]

\* Sessions as they exist before a request: no row yet, a row created through
\* the training-context endpoint, and rows left by earlier requests.
InitSessions ==
    { <<MainScenario, Nil>>,
      <<EmptyScenario, Nil>>,
      <<MainScenario, Stored(None, None, StoredTurns(InitTurns))>>,
      <<MainScenario, Stored("p2", "ground", StoredTurns(InitTurns + 3))>>,
      <<MainScenario, Stored("p3", "tower", <<>>)>>,
      <<MainScenario, [Stored("p4", None, <<>>) EXCEPT !.squawk = 7000]>>,
      <<MainScenario, Stored("ghost", None, <<>>)>> }

InitCommon ==
    /\ \E i \in InitSessions :
         /\ scenario = i[1]
         /\ db = i[2]
         /\ IF mode = "seq" THEN TRUE
            ELSE IF i[1] # MainScenario THEN FALSE
            ELSE IF i[2] = Nil THEN TRUE ELSE Len(i[2].turns) = InitTurns
    /\ mem = <<>>
    /\ scores = <<>>
    /\ clock = 1
    /\ nreq = 0
    /\ req = [s \in Slots |-> IdleReq]
    /\ job = IdleJob

Init == mode = "seq" /\ InitCommon

\* The catalogue: the scenario template with and without a default phase and a
\* default frequency group, and the context rows a session may hold.
ScenarioWithDefaults(p, g) ==
    [MainScenario EXCEPT !.default_phase = p, !.default_frequency_group = g]

CatalogScenarios ==
    {ScenarioWithDefaults(p, g) : p \in {None, "p2", "ghost"}, g \in {None, "ground"}}
      \cup {EmptyScenario}

CatalogStored ==
    {Nil} \cup {Stored(p, g, <<>>) : p \in {None, "p1", "p2", "p3", "p4", "ghost"},
                                     g \in {None, "tower", "radar"}}

InitCatalog ==
    /\ mode = "catalog"
    /\ scenario \in CatalogScenarios
    /\ db \in CatalogStored
    /\ mem = <<>>
    /\ scores = <<>>
    /\ clock = 1
    /\ nreq = 0
    /\ req = [s \in Slots |-> IdleReq]
    /\ job = IdleJob

InitConc == mode = "conc" /\ InitCommon

Next ==
    \E s \in Slots :
       \/ Begin(s)
       \/ Transcribe(s)
       \/ FetchContext(s)
       \/ Classify(s)
       \/ AppendSelect(s)
       \/ AppendCommit(s)
       \/ Guard(s)
       \/ LlmAttempt(s)
       \/ Transition(s)
       \/ SaveScore(s)
       \/ Synthesize(s)
       \/ Upload(s)

Spec == Init /\ [][Next]_vars

SpecConc == InitConc /\ [][Next]_vars

SpecCatalog == InitCatalog /\ [][Next]_vars

\* ------------------------------ transcribe.TranscribeService (one call)
\* A step is the code of transcribe_session_audio between two awaits; the
\* time of the event loop (loop.time()) is counted in seconds.
Pipeline == <<mode, scenario, db, mem, scores, clock, nreq, req>>

\* the call ends with TranscriptionError(msg); `finally` runs first when the
\* exception is raised inside the try block
Raise(j, msg) == [j EXCEPT !.pc = "finally", !.error = msg]

\* `if not audio_bytes: raise`, then _build_object_key
CheckAudio ==
    /\ job.pc = "called"
    /\ job' = IF job.audio = "empty"
              THEN [job EXCEPT !.pc = "raised", !.error = "empty"]
              ELSE [job EXCEPT !.pc = "upload"]
    /\ UNCHANGED Pipeline

\* _upload_to_s3 returns or raises (outside the try block)
UploadToS3 ==
    /\ job.pc = "upload"
    /\ \/ job' = [job EXCEPT !.pc = "start_job", !.object = "stored"]
       \/ job' = [job EXCEPT !.pc = "raised", !.error = "upload"]
    /\ UNCHANGED Pipeline

\* _start_job returns or raises; _wait_for_job computes its deadline
StartJob ==
    /\ job.pc = "start_job"
    /\ \/ job' = [job EXCEPT !.pc = "poll", !.deadline = job.now + timeout_seconds]
       \/ job' = Raise(job, "start")
    /\ UNCHANGED Pipeline

JobStatuses == {"QUEUED", "IN_PROGRESS", "COMPLETED", "FAILED"}

\* one pass of the loop of _wait_for_job after get_transcription_job returned
wait_for_job(j, status) ==
    IF status = "COMPLETED" THEN [j EXCEPT !.pc = "fetch", !.status = status]
    ELSE IF status = "FAILED" THEN [Raise(j, "failed") EXCEPT !.status = status]
    ELSE IF j.now >= j.deadline THEN [Raise(j, "timeout") EXCEPT !.status = status]
    ELSE [j EXCEPT !.pc = "sleep", !.status = status]

\* get_transcription_job returns a status or raises
PollJob ==
    /\ job.pc = "poll"
    /\ \/ \E status \in JobStatuses : job' = wait_for_job(job, status)
       \/ job' = Raise(job, "status")
    /\ UNCHANGED Pipeline

\* asyncio.sleep(poll_interval) returns: at least poll_interval has passed
Sleep ==
    /\ job.pc = "sleep"
    /\ \E late \in {0, 1} :
         job' = [job EXCEPT !.pc = "poll", !.now = @ + poll_interval + late]
    /\ UNCHANGED Pipeline

\* _fetch_transcript returns the text or raises
FetchTranscript ==
    /\ job.pc = "fetch"
    /\ \/ job' = [job EXCEPT !.pc = "finally", !.result = "transcript"]
       \/ job' = Raise(job, "download")
    /\ UNCHANGED Pipeline

\* (mutant) the object is deleted at the end of the try block only
delete_after_success(j) == j.cleanup_objects /\ j.error = None

\* `finally: if self._cleanup_objects: await self._delete_from_s3(object_key)`
delete_in_finally(j) == j.cleanup_objects

\* the finally clause, then the return or the exception leaves the function;
\* a failure of delete_object is logged and swallowed
Finally ==
    /\ job.pc = "finally"
    /\ LET out == IF job.error = None THEN "returned" ELSE "raised" IN
         IF delete_in_finally(job)
         THEN \E deleted \in BOOLEAN :
                job' = [job EXCEPT !.pc = out, !.delete_calls = @ + 1,
                                   !.object = IF deleted THEN "deleted" ELSE @]
         ELSE job' = [job EXCEPT !.pc = out]
    /\ UNCHANGED Pipeline

InitTranscribe ==
    /\ mode = "transcribe"
    /\ scenario = EmptyScenario
    /\ db = Nil
    /\ mem = <<>>
    /\ scores = <<>>
    /\ clock = 1
    /\ nreq = 0
    /\ req = [s \in Slots |-> IdleReq]
    /\ \E c \in BOOLEAN, a \in {"bytes", "empty"} :
         job = [IdleJob EXCEPT !.pc = "called", !.cleanup_objects = c, !.audio = a]

NextTranscribe ==
    \/ CheckAudio
    \/ UploadToS3
    \/ StartJob
    \/ PollJob
    \/ Sleep
    \/ FetchTranscript
    \/ Finally

\* every await of the coroutine returns or raises, and the event loop resumes it
SpecTranscribe == InitTranscribe /\ [][NextTranscribe]_vars /\ WF_vars(NextTranscribe)

\* ================================================================ claims
\* helpers of the claims
IsSuffix(t, full) ==
    Len(t) <= Len(full) /\ t = SubSeq(full, Len(full) - Len(t) + 1, Len(full))

TurnsOf(rid, role, turns) ==
    {i \in 1..Len(turns) : turns[i].rid = rid /\ turns[i].role = role}

StoredTurnsNow == IF db = Nil THEN <<>> ELSE db.turns

ScoresOf(rid) == {i \in 1..Len(scores) : scores[i].rid = rid}

\* the guard of the request has run
Guarded(r) == r.current_phase # Nil

\* an expected frequency is configured and the received one differs from it
Mismatch(r) == Guarded(r) /\ TruthyText(r.expected) /\ r.received # r.expected

\* the phase bookkeeping of the request has run
PastTransition(r) == r.saving = "controller"

\* ---- C1
\* C1 (as claimed): on a frequency mismatch the inference service is not
\* invoked at any point of the request, neither by the intent classifier nor by
\* the conversation stage, and the feedback returned holds the normalized
\* expected frequency.
C1_NoInferenceOnMismatch ==
    \A s \in Slots :
       Mismatch(req[s]) =>
          /\ req[s].calls.classifier = 0
          /\ req[s].calls.llm = 0
          /\ req[s].status = 200 => Contains(req[s].body.feedback, req[s].expected)

\* ---- C2
Malformed3 == <<"malformed", "malformed", "malformed">>

Unchanged(r) ==
    /\ r.ctx.phase_id = r.fetched.phase_id
    /\ r.ctx.phase = r.fetched.phase
    /\ r.ctx.default_frequency_group = r.fetched.default_frequency_group

Explicit(r) == IF TruthyStr(r.nextPhase) THEN r.nextPhase ELSE r.next_phase

\* the next-phase id as the claim resolves it: metadata, else onSuccess
ClaimedCandidate(r) ==
    IF TruthyStr(Explicit(r)) THEN Explicit(r)
    ELSE IF r.allow_response THEN r.current_phase.onSuccess ELSE None

\* the next-phase id with the transitions.success alias
AliasedCandidate(r) ==
    IF TruthyStr(Explicit(r)) THEN Explicit(r)
    ELSE IF ~r.allow_response THEN None
    ELSE IF TruthyStr(r.current_phase.onSuccess) THEN r.current_phase.onSuccess
    ELSE r.current_phase.success

MovedTo(r, c) ==
    IF TruthyStr(c) /\ c \in PhaseIds(scenario)
    THEN r.ctx.phase_id = c /\ r.ctx.phase = PhaseMapGet(scenario, c)
    ELSE Unchanged(r)

C4_StateBound ==
    /\ Len(mem) <= MAX_TURNS_STORED
    /\ (\E i \in 1..Len(StoredTurnsNow) : StoredTurnsNow[i].rid > 0)
          => Len(StoredTurnsNow) <= MAX_TURNS_STORED

\* a step in which the append of a turn commits
C4_CommitStep ==
    \A s \in Slots :
       (req[s].pc = "append_commit" /\ req'[s].pc \in {"guard", "score"}) =>
          LET full == Append(req[s].history, req[s].enriched) IN
            /\ db' # Nil
            /\ Len(db'.turns) <= MAX_TURNS_STORED
            /\ db'.turns # <<>>
            /\ IsSuffix(db'.turns, full)
            /\ db'.turns[Len(db'.turns)] = req[s].enriched
            /\ Len(full) <= MAX_TURNS_STORED => db'.turns = full

\* C4: with overlapping requests of one session, the stored turns never exceed
\* MAX_TURNS_STORED once a turn has been appended, and every committed append
\* stores the most recent turns of the writer's list, ending with its new turn.
C4_TurnsBounded == []C4_StateBound /\ [][C4_CommitStep]_vars

C4_Witness ==
    /\ db # Nil
    /\ Len(db.turns) = MAX_TURNS_STORED
    /\ db.turns[1].rid # 0 - 1
    /\ db.turns[Len(db.turns)].rid > 0
    /\ \E s \in Slots : \E t \in Slots : s # t /\ req[s].pc # "idle" /\ req[t].pc # "idle"

\* ---- C5
InRange(v) == v = NoNum \/ (v >= 0 /\ v <= 100)

\* C5: every score and every confidence kept in a stored turn, in the session
\* memory or in a PhaseScore is absent or within its clamped range.
C5_ScoresClamped ==
    /\ \A i \in 1..Len(StoredTurnsNow) :
          InRange(StoredTurnsNow[i].score) /\ InRange(StoredTurnsNow[i].confidence)
    /\ \A i \in 1..Len(mem) : InRange(mem[i].score) /\ InRange(mem[i].confidence)
    /\ \A i \in 1..Len(scores) : InRange(scores[i].score)
    /\ \A s \in Slots :
          req[s].structured # Nil =>
             /\ InRange(req[s].structured.score)
             /\ InRange(req[s].structured.confidence)

C5_Witness ==
    \E s \in Slots :
       /\ req[s].llm_raw # Nil
       /\ req[s].llm_raw.data.score > 100
       /\ req[s].llm_raw.data.confidence > 100
       /\ req[s].status = 200
       /\ \E i \in TurnsOf(req[s].rid, "controller", StoredTurnsNow) :
             StoredTurnsNow[i].score = 100 /\ StoredTurnsNow[i].confidence = 100
       /\ \E i \in ScoresOf(req[s].rid) : scores[i].score = 100

\* ---- C6
\* C6 (as claimed): a request rejected with 409 for want of an active phase has
\* run no transcription, no inference and no write to the context store.
C6_NoPhaseNoWork ==
    \A s \in Slots :
       (req[s].status = 409 /\ req[s].detail = "no_active_phase") =>
          /\ req[s].calls.transcribe = 0
          /\ req[s].calls.classifier = 0
          /\ req[s].calls.llm = 0
          /\ req[s].calls.store_writes = 0

\* ---- C7
\* C7 (as claimed): the student turn of a request is in the context store
\* before any inference call of that request, and is still there when the
\* request fails with 502 on the model's reply.
C7_StudentTurnBeforeInference ==
    \A s \in Slots :
       /\ (req[s].calls.classifier + req[s].calls.llm > 0)
             => TurnsOf(req[s].rid, "student", StoredTurnsNow) # {}
       /\ (req[s].status = 502 /\ req[s].detail = "llm")
             => TurnsOf(req[s].rid, "student", StoredTurnsNow) # {}

\* ---- C8
\* C8 (as claimed): every finished request carries one of the statuses
\* 200, 400, 409 and 502.
C8_StatusSet ==
    \A s \in Slots : req[s].pc = "done" => req[s].status \in {200, 400, 409, 502}

\* ---- C9
Withheld(r) ==
    \/ Guarded(r) /\ ~r.is_valid_frequency
    \/ IF r.structured = Nil THEN FALSE ELSE ~r.structured.allowResponse

\* C9: a 200 response to a turn whose reply is withheld (allowResponse false or
\* frequency mismatch) has a null audio_url and no controller_text, and no
\* speech was synthesized or uploaded for it.
C9_NoAudioWhenWithheld ==
    \A s \in Slots :
       (req[s].status = 200 /\ Withheld(req[s])) =>
          /\ req[s].body.audio_url = None
          /\ req[s].body.controller_text = NoText
          /\ req[s].calls.tts = 0
          /\ req[s].calls.upload = 0

C9_Witness ==
    \E s \in Slots :
       /\ req[s].status = 200
       /\ req[s].structured # Nil
       /\ ~req[s].structured.allowResponse
       /\ TruthyText(req[s].structured.controllerText)
       /\ req[s].body.audio_url = None

\* ---- C10
ExpectedRows(r) ==
    IF ~r.is_valid_frequency THEN 1
    ELSE IF r.structured.score # NoNum THEN 1 ELSE 0

\* C10: a turn answered with 200 leaves at most one PhaseScore: none when the
\* frequency is valid and the model gives no score, one under the phase id (or
\* "unknown") when it gives one, and on a frequency mismatch exactly one, under
\* "frequency_usage_error" with score 0.
C10_OnePhaseScore ==
    \A s \in Slots :
       LET r == req[s] IN
         r.status = 200 =>
            /\ Cardinality(ScoresOf(r.rid)) = ExpectedRows(r)
            /\ \A i \in ScoresOf(r.rid) :
                  IF ~r.is_valid_frequency
                  THEN scores[i].phase_id = "frequency_usage_error" /\ scores[i].score = 0
                  ELSE /\ scores[i].phase_id = OrStr(r.ctx.phase_id, "unknown")
                       /\ scores[i].score = r.structured.score

C10_Witness ==
    \E s \in Slots :
       /\ req[s].status = 200
       /\ ~req[s].is_valid_frequency
       /\ \E i \in ScoresOf(req[s].rid) : scores[i].phase_id = "frequency_usage_error"

\* ---- C11
\* the phase resolved for the request has no intent
PhaseWithoutIntent(r) ==
    r.calls.store_reads = 1 /\ r.fetched.phase # Nil /\ ~TruthyStr(r.fetched.phase.intent)

\* C11 (as claimed): when the active phase has no intent the request never
\* passes the intent check, whatever the classifier detected: the conversation
\* model is not invoked, and the 409 is raised with no external call made.
C11_NoIntentStops ==
    \A s \in Slots :
       /\ PhaseWithoutIntent(req[s]) => (~Guarded(req[s]) /\ req[s].calls.llm = 0)
       /\ (req[s].status = 409 /\ req[s].detail = "no_intent") =>
             /\ req[s].calls.transcribe = 0
             /\ req[s].calls.classifier = 0
             /\ req[s].calls.llm = 0

\* ---- C12
\* C12 (as claimed): the detail of a 502 response is the one any other upstream
\* cause would have given in the same stage.
C12_DetailIndependentOfCause ==
    \A s \in Slots :
       req[s].status = 502 =>
          \A c \in Causes : req[s].response_detail = http_detail(req[s].detail, c)

\* ---- C13
\* a reply was produced: the readback was synthesized and uploaded
ReplyProduced(r) == r.status = 200 /\ r.calls.upload = 1

\* C13: a 200 response with a reply carries the session id, the frequency
\* string as submitted and the URL the readback upload returned.
C13_EchoAndUrl ==
    \A s \in Slots :
       ReplyProduced(req[s]) =>
          /\ req[s].body.session_id = SessionId
          /\ req[s].body.frequency = req[s].frequency
          /\ req[s].body.audio_url = object_url(req[s].rid)

C13_Witness ==
    \E s \in Slots :
       /\ ReplyProduced(req[s])
       /\ req[s].rid = 2
       /\ req[s].frequency = F118_3
       /\ req[s].received = F118_300
       /\ req[s].body.frequency = F118_3
       /\ req[s].body.audio_url = "url_2"

\* ---- C14
\* the dynamic values of a context (stored row or session_context)
Dynamic(c) == <<c.squawk, c.taxi_route, c.meteo>>

\* the request resolved its context
Resolved(r) == r.calls.store_reads = 1

\* the resolved values went into a turn: the request passed the guard
UsedValues(r) == Guarded(r)

C14_Memoized ==
    \A s \in Slots :
       LET r == req[s] IN
         /\ Resolved(r) =>
               /\ r.ctx.squawk # NoNum /\ r.ctx.taxi_route # NoNum /\ r.ctx.meteo # NoNum
               /\ Dynamic(r.ctx) = Dynamic(r.fetched)
               /\ (db # Nil /\ db.squawk # NoNum) => r.ctx.squawk = db.squawk
               /\ (db # Nil /\ db.taxi_route # NoNum) => r.ctx.taxi_route = db.taxi_route
               /\ (db # Nil /\ db.meteo # NoNum) => r.ctx.meteo = db.meteo
         /\ UsedValues(r) => (db # Nil /\ Dynamic(db) = Dynamic(r.ctx))

\* a stored dynamic value is never replaced
C14_StoredValuesKept ==
    db # Nil =>
       /\ db' # Nil
       /\ db.squawk # NoNum => db'.squawk = db.squawk
       /\ db.taxi_route # NoNum => db'.taxi_route = db.taxi_route
       /\ db.meteo # NoNum => db'.meteo = db.meteo

Key(t) == <<t.rid, t.role>>

Keys(turns) == [i \in 1..Len(turns) |-> Key(turns[i])]

Front(q) == SubSeq(q, 1, Len(q) - 1)

\* the turns of the requests appear in the order of their persistence
C15_Ordered ==
    LET made == {i \in 1..Len(StoredTurnsNow) : StoredTurnsNow[i].rid > 0}
    IN \A i \in made : \A j \in made :
          LET a == StoredTurnsNow[i]
              b == StoredTurnsNow[j]
          IN i < j =>
                \/ a.rid < b.rid
                \/ a.rid = b.rid /\ a.role = "student" /\ b.role = "controller"

\* a step that changes the stored turns keeps the turns stored before, in their
\* order, but for the oldest dropped at the bound, and adds one turn at the end
C15_Kept ==
    LET old == Keys(StoredTurnsNow)
        new == Keys(IF db' = Nil THEN <<>> ELSE db'.turns)
    IN (db' # db /\ new # old) =>
         /\ new # <<>>
         /\ \E s \in Slots :
               /\ req[s].pc = "append_commit"
               /\ new[Len(new)] = <<req[s].rid, req[s].saving>>
         /\ \E k \in 0..Len(old) :
               /\ k > 0 => Len(new) = MAX_TURNS_STORED
               /\ IsSuffix(SubSeq(old, k + 1, Len(old)), Front(new))

\* C15: over requests made one after the other, every change of the stored
\* history keeps the stored turns in place and order (the oldest being dropped
\* only at MAX_TURNS_STORED) and puts the new turn last; the turns stay in the
\* order of their persistence.
C15_AppendOnly == []C15_Ordered /\ [][C15_Kept]_vars

C15_Witness ==
    /\ Len(StoredTurnsNow) = MAX_TURNS_STORED
    /\ StoredTurnsNow[1].rid # 0 - 1
    /\ Key(StoredTurnsNow[MAX_TURNS_STORED]) = <<2, "controller">>
    /\ Key(StoredTurnsNow[MAX_TURNS_STORED - 1]) = <<2, "student">>
    /\ Key(StoredTurnsNow[MAX_TURNS_STORED - 2]) = <<1, "controller">>

\* ---- C16
\* C16 (as claimed): the PhaseScore of a valid-frequency turn and the phase_id
\* of its controller turn carry the id of the phase the transmission was
\* evaluated in, also when the turn moves the session to another phase.
C16_ScoreUnderEvaluatedPhase ==
    \A s \in Slots :
       LET r == req[s] IN
         (Guarded(r) /\ r.is_valid_frequency) =>
            /\ \A i \in ScoresOf(r.rid) : scores[i].phase_id = r.current_phase.id
            /\ \A i \in TurnsOf(r.rid, "controller", StoredTurnsNow) :
                  StoredTurnsNow[i].phase_id = r.current_phase.id

\* ---- C17
\* a committed append replaces the stored turns by the writer's own snapshot
\* plus its new turn, and the stored phase_id by the one the writer holds
C17_SnapshotWritten ==
    \A s \in Slots :
       (req[s].pc = "append_commit" /\ req'[s].pc \in {"guard", "score"}) =>
          /\ db' # Nil
          /\ Keys(db'.turns) =
                Keys(LastN(Append(req[s].history, req[s].enriched), MAX_TURNS_STORED))
          /\ req[s].ctx.phase_id # None => db'.phase_id = req[s].ctx.phase_id

\* C17: with overlapping requests every committed append stores the writer's
\* snapshot of the history plus its turn and the writer's phase_id, whatever
\* the row holds by then; the witness is a lost update.
C17_LastWriterWins == [][C17_SnapshotWritten]_vars

\* both requests answered 200 and persisted their turns, yet the turns of one
\* of them are missing from the stored history, and the stored phase_id is the
\* other's
C17_LostUpdate ==
    \E s \in Slots : \E t \in Slots :
       /\ s # t
       /\ req[s].status = 200 /\ req[t].status = 200
       /\ req[s].calls.store_writes = 2 /\ req[t].calls.store_writes = 2
       /\ TurnsOf(req[s].rid, "student", StoredTurnsNow) = {}
       /\ TurnsOf(req[s].rid, "controller", StoredTurnsNow) = {}
       /\ TurnsOf(req[t].rid, "controller", StoredTurnsNow) # {}
       /\ db.phase_id = req[t].ctx.phase_id
       /\ db.phase_id # req[s].ctx.phase_id

\* ---- C18
\* the request failed in the speech synthesis or in the upload of the readback
AudioFailed(r) == r.status = 502 /\ r.detail \in {"tts", "storage"}

\* C18: when synthesis or upload fails with 502, the writes of the request
\* stand: its student turn and its controller turn (with the score and the
\* phase_id it holds) are stored, the stored phase_id is the one the request
\* moved to, and the PhaseScore of a scored reply is there.
C18_NoRollback ==
    \A s \in Slots :
       LET r == req[s] IN
         AudioFailed(r) =>
            /\ r.structured # Nil
            /\ TurnsOf(r.rid, "student", StoredTurnsNow) # {}
            /\ \E i \in TurnsOf(r.rid, "controller", StoredTurnsNow) :
                  /\ StoredTurnsNow[i].score = r.response_score
                  /\ StoredTurnsNow[i].phase_id = r.ctx.phase_id
                  /\ StoredTurnsNow[i].allow
            /\ db.phase_id = r.ctx.phase_id
            /\ r.response_score # NoNum =>
                  \E i \in ScoresOf(r.rid) : scores[i].score = r.response_score
            /\ r.body.audio_url = None

C18_Witness ==
    \E s \in Slots :
       /\ AudioFailed(req[s])
       /\ req[s].detail = "storage"
       /\ req[s].ctx.phase_id # req[s].fetched.phase_id
       /\ db.phase_id = req[s].ctx.phase_id
       /\ ScoresOf(req[s].rid) # {}

\* ---- C19
\* the replies before the last one
Earlier(log) == {log[i] : i \in 1..(Len(log) - 1)}

C20_Priority ==
    \A s \in Slots :
       LET r == req[s] IN
         PastTransition(r) =>
            /\ TruthyStr(r.nextPhase) => MovedTo(r, r.nextPhase)
            /\ (~TruthyStr(r.nextPhase) /\ TruthyStr(r.next_phase)) => MovedTo(r, r.next_phase)
            /\ (~TruthyStr(Explicit(r)) /\ r.allow_response
                  /\ TruthyStr(r.current_phase.onSuccess))
                  => MovedTo(r, r.current_phase.onSuccess)
            /\ (~TruthyStr(Explicit(r)) /\ ~r.allow_response) => Unchanged(r)

\* the metadata names no phase of phase_map: no move, though next_phase and
\* the phase's onSuccess name one
C20_Witness ==
    \E s \in Slots :
       /\ PastTransition(req[s])
       /\ req[s].nextPhase = "ghost"
       /\ req[s].next_phase = "p4"
       /\ req[s].current_phase.onSuccess = "p2"
       /\ Unchanged(req[s])

\* ---- C21
\* the ids fetch_session_context considers for the active phase, in the order
\* of the claim: stored phase id, scenario default phase, first phase
PhaseCandidates == <<StoredField(db, "phase_id"), scenario.default_phase, FirstPhaseId(scenario)>>

Resolving == {i \in 1..3 : PhaseCandidates[i] \in PhaseIds(scenario)}

\* the context has just been fetched (the stored row is the one it was read from)
JustFetched(r) == r.pc = "classify"

\* C21 (as claimed): the active phase of the fetched context is the first of
\* stored phase id, scenario default phase and first phase that names a phase of
\* phase_map, and there is no active phase only when none of the three does.
C21_ResolutionOrder ==
    \A s \in Slots :
       JustFetched(req[s]) =>
          IF Resolving = {}
          THEN req[s].fetched.phase = Nil
          ELSE LET k == CHOOSE i \in Resolving : \A j \in Resolving : i <= j
               IN /\ req[s].fetched.phase_id = PhaseCandidates[k]
                  /\ req[s].fetched.phase = PhaseMapGet(scenario, PhaseCandidates[k])

\* ---- C22
\* a request of the behaviour has written the stored context
WrittenByRequest ==
    /\ db # Nil
    /\ db.turns # <<>>
    /\ db.turns[Len(db.turns)].rid > 0

\* C22: once a request has written the context of a session whose scenario has
\* phases, the stored phase_id names a phase of phase_map, whatever id was
\* stored before and whatever destination the turn proposed.
C22_StoredPhaseResolves ==
    (scenario.phases # <<>> /\ WrittenByRequest) => db.phase_id \in PhaseIds(scenario)

\* a turn whose proposed destination names no phase has been stored
C22_Witness ==
    /\ WrittenByRequest
    /\ \E s \in Slots :
          /\ req[s].pc = "done"
          /\ req[s].status = 200
          /\ req[s].nextPhase = "ghost"
          /\ db.turns[Len(db.turns)] = req[s].enriched
          /\ db.phase_id = req[s].current_phase.id

\* ---- C23
\* C23 (as claimed): the turns a request has stored carry a timestamp, and
\* the stored student turn keeps the timestamp it was first persisted with when
\* the controller turn of the request is persisted after it.
C23_TimestampKept ==
    \A s \in Slots :
       LET r == req[s] IN
         (r.pc = "score" /\ r.saving = "controller") =>
            /\ \A i \in TurnsOf(r.rid, "controller", StoredTurnsNow) :
                  StoredTurnsNow[i].ts # NoNum
            /\ \A i \in TurnsOf(r.rid, "student", StoredTurnsNow) :
                  StoredTurnsNow[i].ts # NoNum

\* ---- C24
\* C24 (as claimed): the intent of the request sent to the conversation model
\* (phase_intent, the "Intent esperado" of the prompt) is the intent configured
\* for the active phase, whatever intent the classifier detected.
C24_ExpectedIntentIsPhaseIntent ==
    \A s \in Slots :
       req[s].calls.llm > 0 => req[s].phase_intent = req[s].current_phase.intent

\* ---- C25
\* the step is the return of fetch_session_context in some slot
FetchReturns == \E s \in Slots : req[s].pc = "fetch" /\ req'[s].pc # "fetch"

C25_FetchFrame == FetchReturns => (db' = db /\ mem' = mem)

\* C25 (as claimed): resolving the session context changes neither the
\* persisted context record nor the in-memory turn store.
C25_FetchReadsOnly == [][C25_FetchFrame]_vars

\* ---- C26
\* the request has moved the session to another phase
MovedPhase(r) == PastTransition(r) /\ r.ctx.phase_id # r.fetched.phase_id

\* the controller turn of the request has been committed
ControllerStored(r) == r.saving = "controller" /\ r.calls.store_writes = 2

\* the stored turn before the student turn of request r, when it is the
\* controller turn of the request made just before
PreviousControllerTurn(r) ==
    IF /\ r.rid > 1
       /\ Len(StoredTurnsNow) >= 2
       /\ StoredTurnsNow[Len(StoredTurnsNow) - 1].rid = r.rid - 1
       /\ StoredTurnsNow[Len(StoredTurnsNow) - 1].role = "controller"
    THEN StoredTurnsNow[Len(StoredTurnsNow) - 1]
    ELSE Nil

\* the transition block gives the session the group of the destination phase,
\* or leaves the default group alone when the destination defines none, and the
\* write of the controller turn stores it
C26_GroupFollowsPhase ==
    \A s \in Slots :
       LET r == req[s] IN
         MovedPhase(r) =>
            LET g == r.ctx.phase.frequency IN
              IF TruthyStr(g)
              THEN /\ r.ctx.default_frequency_group = g
                   /\ r.ctx.active_frequency_group = g
                   /\ ControllerStored(r) =>
                         (db.phase_id = r.ctx.phase_id /\ db.default_frequency_group = g)
              ELSE /\ r.ctx.default_frequency_group = r.fetched.default_frequency_group
                   /\ ControllerStored(r) =>
                         db.default_frequency_group = r.fetched.default_frequency_group

\* the request made after one that left the session in a phase with group g
\* is guarded against the frequency configured for g
C26_NextGuarded ==
    \A s \in Slots :
       LET r == req[s]
           t == PreviousControllerTurn(r)
       IN (r.pc \in {"llm", "transition"} /\ r.saving = "student" /\ t # Nil) =>
            LET p == PhaseMapGet(scenario, t.phase_id) IN
              /\ p # Nil
              /\ r.current_phase = p
              /\ TruthyStr(p.frequency) =>
                    /\ r.active_group = p.frequency
                    /\ r.expected = normalize_frequency(FrequencyOf(scenario, p.frequency))
                    /\ r.is_valid_frequency <=>
                          (~TruthyText(r.expected) \/ r.received = r.expected)

GuardDecided(r) ==
    /\ r.saving = "student"
    /\ r.calls.store_writes = 1
    /\ r.calls.llm = 0
    /\ r.pc \in {"llm", "transition", "done"}
    /\ r.status # 409

\* the frequency configured for the group the guard of the request works on
ExpectedFor(r) ==
    FrequencyOf(scenario,
                active_group(scenario_group(r.fetched.phase, r.fetched), r.cls.frequency_group))

\* C27 (as claimed): the canonical form of the received frequency is a fixed
\* point of normalize_frequency; the guard accepts the received frequency
\* exactly when its canonical form is that of the expected frequency, and
\* accepts any received frequency when none is configured for the active group.
C27_GuardOnCanonicalForm ==
    \A s \in Slots :
       LET r == req[s] IN
         GuardDecided(r) =>
            LET canon == normalize_frequency(Strip(r.frequency))
                expected == normalize_frequency(ExpectedFor(r))
                accepted == r.pc = "llm"
            IN /\ normalize_frequency(canon) = canon
               /\ IF ~TruthyText(expected) THEN accepted
                  ELSE accepted <=> (canon = expected)

\* ---- C28
\* C28 (as claimed): the system prompt built for a request of analyze_audio,
\* which names no difficulty, carries the instruction of the middle band.
C28_DefaultIsNormalMode ==
    \A s \in Slots :
       req[s].calls.llm > 0 => req[s].difficulty_mode = "Modo normal"

\* ---- C29
\* nothing is to be said: the reply is not allowed or its text is blank
NothingToSay(r) == ~r.allow_response \/ Strip(r.controller_text) = <<>>

\* C29: synthesize_controller_audio calls neither the speech synthesis nor the
\* upload when the reply is not allowed or its text is blank after trimming,
\* and the response then has no audio URL; the upload is called only after a
\* synthesis that succeeded.
C29_NoSynthesisWithoutReply ==
    \A s \in Slots :
       LET r == req[s] IN
         /\ NothingToSay(r) =>
               /\ r.calls.tts = 0
               /\ r.calls.upload = 0
               /\ r.status = 200 => r.body.audio_url = None
         /\ r.calls.upload > 0 => (r.calls.tts = 1 /\ r.calls.upload = 1)
         /\ r.pc = "upload" => (r.calls.tts = 1 /\ r.calls.upload = 0)
         /\ (r.status = 502 /\ r.detail = "tts") => r.calls.upload = 0
         /\ (r.status = 500 /\ r.cause = "radio_fx") => r.calls.upload = 0

\* an allowed reply whose text is blank was answered without audio
C29_Witness ==
    \E s \in Slots :
       /\ req[s].status = 200
       /\ req[s].allow_response
       /\ req[s].controller_text = <<>>
       /\ req[s].structured # Nil
       /\ req[s].body.audio_url = None
       /\ req[s].calls.tts = 0

\* ---- C30
\* transcribe_session_audio has returned or raised
JobEnded == job.pc \in {"returned", "raised"}

C30_Cleanup ==
    /\ job.delete_calls <= 1
    /\ job.object = "none" => job.delete_calls = 0
    /\ (JobEnded /\ job.object # "none" /\ job.cleanup_objects) => job.delete_calls = 1
    /\ ~job.cleanup_objects => job.delete_calls = 0

C30_LoopExits ==
    /\ job.pc = "sleep" => (job.now < job.deadline /\ job.status \in {"QUEUED", "IN_PROGRESS"})
    /\ job.pc = "returned" => (job.status = "COMPLETED" /\ job.result = "transcript")
    /\ (JobEnded /\ job.status = "FAILED") => (job.pc = "raised" /\ job.error = "failed")
    /\ (JobEnded /\ job.status \in {"QUEUED", "IN_PROGRESS"}) =>
          /\ job.pc = "raised"
          /\ job.error \in {"timeout", "status"}
          /\ job.error = "timeout" => job.now >= job.deadline

\* C30: once the audio object is uploaded, every exit of
\* transcribe_session_audio attempts to delete it when cleanup is enabled, the
\* polling loop goes on only before the deadline, returns on COMPLETED and
\* raises on FAILED or past the deadline, and the call always ends.
C30_CleanupAndTermination == [](C30_Cleanup /\ C30_LoopExits) /\ <>JobEnded

\* the job never completed: the loop gave up at the deadline and the object
\* was deleted
C30_Witness ==
    /\ job.pc = "raised"
    /\ job.error = "timeout"
    /\ job.now >= timeout_seconds
    /\ job.delete_calls = 1
    /\ job.object = "deleted"
====
